---- MODULE Spec2Model ----
(***************************************************************************)
(* Model of the signal-computation core of rust_core:                      *)
(*   physics/obi_engine.rs   backend singleton, init, batch OBI            *)
(*   intelligence/game_theory.rs   competitor heuristic                    *)
(*   lib.rs                  the facade exposed to the host                *)
(*                                                                         *)
(* f64 values are modelled as exact fractions [num, den] with den > 0.     *)
(* All inputs are small integers, every value is the result of at most one *)
(* division, and the thresholds 0.3 and 1.0 are compared by cross          *)
(* multiplication, so a comparison in the model agrees with the IEEE       *)
(* comparison of the correctly rounded quotient with the rounded literal.  *)
(***************************************************************************)
EXTENDS Integers, Sequences, FiniteSets, TLC

\* ------------------------------------------------------------------ bounds
NumThreads == 2
MaxBatch == 2
MaxInits == 2

Threads == 1..NumThreads
NoThread == 0

\* ------------------------------------------------------- f64 as fractions
Rat(n, d) == [num |-> n, den |-> d]
Gt(x, y) == x.num * y.den > y.num * x.den
Lt(x, y) == x.num * y.den < y.num * x.den
Neg(x) == Rat(0 - x.num, x.den)
Abs(n) == IF n < 0 THEN 0 - n ELSE n

\* -------------------------------------------------------- obi_engine.rs
OrderBookSnapshot(ts, bv, av, bp, ap) ==
    [timestamp |-> ts, bid_volume |-> bv, ask_volume |-> av,
     bid_price |-> bp, ask_price |-> ap]

ObiResult(ts, o, e, s) ==
    [timestamp |-> ts, obi |-> o, entropy |-> e, signal |-> s]

\* the literal 0.3 of the signal classification
ObiThreshold == Rat(3, 10)

calculate_single_obi_loose(snapshot) ==
    LET total_volume == snapshot.bid_volume + snapshot.ask_volume
        obi == IF total_volume > 0
               THEN Rat(snapshot.bid_volume - snapshot.ask_volume, total_volume)
               ELSE Rat(0, 1)
        avg2 == snapshot.bid_price + snapshot.ask_price
        spread == Abs(snapshot.ask_price - snapshot.bid_price)
        entropy == IF avg2 > 0 THEN Rat(2 * spread, avg2) ELSE Rat(1, 1)
        signal == IF ~Lt(obi, ObiThreshold) THEN "BUY_PRESSURE"
                  ELSE IF ~Gt(obi, Neg(ObiThreshold)) THEN "SELL_PRESSURE"
                  ELSE "NEUTRAL"
    IN  ObiResult(snapshot.timestamp, obi, entropy, signal)

calculate_single_obi_unguarded(snapshot) ==
    LET total_volume == snapshot.bid_volume + snapshot.ask_volume
        obi == Rat(snapshot.bid_volume - snapshot.ask_volume, total_volume)
        avg2 == snapshot.bid_price + snapshot.ask_price
        spread == Abs(snapshot.ask_price - snapshot.bid_price)
        entropy == IF avg2 > 0 THEN Rat(2 * spread, avg2) ELSE Rat(1, 1)
        signal == IF Gt(obi, ObiThreshold) THEN "BUY_PRESSURE"
                  ELSE IF Lt(obi, Neg(ObiThreshold)) THEN "SELL_PRESSURE"
                  ELSE "NEUTRAL"
    IN  ObiResult(snapshot.timestamp, obi, entropy, signal)

calculate_single_obi(snapshot) ==
    LET total_volume == snapshot.bid_volume + snapshot.ask_volume
        obi == IF total_volume > 0
               THEN Rat(snapshot.bid_volume - snapshot.ask_volume, total_volume)
               ELSE Rat(0, 1)
        \* avg_price = avg2 / 2, so avg_price > 0 iff avg2 > 0 and
        \* spread / avg_price = 2 * spread / avg2
        avg2 == snapshot.bid_price + snapshot.ask_price
        spread == Abs(snapshot.ask_price - snapshot.bid_price)
        entropy == IF avg2 > 0 THEN Rat(2 * spread, avg2) ELSE Rat(1, 1)
        signal == IF Gt(obi, ObiThreshold) THEN "BUY_PRESSURE"
                  ELSE IF Lt(obi, Neg(ObiThreshold)) THEN "SELL_PRESSURE"
                  ELSE "NEUTRAL"
    IN  ObiResult(snapshot.timestamp, obi, entropy, signal)

\* Option<T> is a sequence of length 0 (None) or 1 (Some)
None == <<>>
Some(x) == <<x>>

\* struct PhysicsEngine; gpu_device exists only in a cuda build and is
\* modelled as None there when the feature is off
NoDevice == "NoDevice"
CudaDev == "CudaDevice0"
PhysicsEngine(dev, fallback) == [gpu_device |-> dev, cpu_fallback |-> fallback]

EngineValues ==
    {None, Some(PhysicsEngine(CudaDev, FALSE)), Some(PhysicsEngine(NoDevice, TRUE))}

\* BackendState of the specification, read off the stored engine
Mode(e) ==
    IF e = None THEN "Uninitialized"
    ELSE IF e[1].gpu_device # NoDevice THEN "HardwareAccelerated"
    ELSE "CpuParallel"

\* Result<T, String>
Ok(v) == [ok |-> TRUE, val |-> v, err |-> ""]
Err(e) == [ok |-> FALSE, val |-> <<>>, err |-> e]

\* the zero-filled output buffers d_obi, d_entropy read back as results
ZeroResults(snapshots) ==
    [i \in 1..Len(snapshots) |->
        ObiResult(snapshots[i].timestamp, Rat(0, 1), Rat(0, 1), "NEUTRAL")]

calculate_obi_batch_gpu_kernel(snapshots) ==
    {Err("GPU alloc failed"), Ok(ZeroResults(snapshots))}

\* every outcome the accelerated path can produce for a batch: one of the
\* six allocations fails, or the function reaches its last line
calculate_obi_batch_gpu(snapshots) ==
    {Err("GPU alloc failed"),
     Err("GPU kernel not implemented yet, use CPU fallback")}

\* collect() of an indexed parallel iterator: the result of element i is
\* stored at position i of the output, whenever it completes
PlaceByCompletion(buf, i, r) ==
    LET free == {k \in 1..Len(buf) : buf[k] = None}
        first == CHOOSE k \in free : \A j \in free : k <= j
    IN  [buf EXCEPT ![first] = Some(r)]

Place(buf, i, r) == [buf EXCEPT ![i] = Some(r)]

\* Mutex::lock(): the caller proceeds only when no thread holds the guard
LockFreeAlways(holder) == TRUE

LockFree(holder) == holder = NoThread

\* ---------------------------------------------------------------- lib.rs
OrderBookData(bp, bv, ap, av) ==
    [bid_price |-> bp, bid_volume |-> bv, ask_price |-> ap, ask_volume |-> av]

\* calculate_obi_batch (facade): TypeScript data to Rust structs
ToSnapshot(data) ==
    OrderBookSnapshot(0, data.bid_volume, data.ask_volume, data.bid_price, data.ask_price)

\* calculate_obi_batch (facade): results to TypeScript format, wrapped in Ok
ts_results(engine_results, gpu_latency_ms) ==
    Ok([i \in 1..Len(engine_results) |->
          [imbalance |-> engine_results[i].obi,
           signal |-> engine_results[i].signal,
           gpu_latency_ms |-> gpu_latency_ms]])

init_physics_engine(r) ==
    IF r.ok THEN Ok("Physics Engine: CUDA/CPU ONLINE")
    ELSE Err("Failed to init physics engine")

\* evaluate_market_entropy: the standalone single-value classifier
evaluate_market_entropy(imbalance) ==
    IF Gt(imbalance, Rat(3, 10)) THEN "BUY_PRESSURE"
    ELSE IF Lt(imbalance, Rat(0 - 3, 10)) THEN "SELL_PRESSURE"
    ELSE "NEUTRAL"

\* ------------------------------------------------------- game_theory.rs
wall_threshold == 1000

analyze_ask_first(bid_volume, ask_volume, spread_percent) ==
    IF ask_volume > wall_threshold THEN "DETECTED_FAKE_WALL_ASK: DEPLOY_BAIT_BUY"
    ELSE IF bid_volume > wall_threshold THEN "DETECTED_FAKE_WALL_BID: DEPLOY_BAIT_SELL"
    ELSE IF Gt(spread_percent, Rat(1, 1)) THEN "MARKET_VOID: DEPLOY_PROBE"
    ELSE "NO_COMPETITOR_ANOMALY"

\* CompetitorAnalysis::analyze; volumes are whole numbers, spread_percent a
\* fraction
analyze(bid_volume, ask_volume, spread_percent) ==
    IF bid_volume > wall_threshold THEN "DETECTED_FAKE_WALL_BID: DEPLOY_BAIT_SELL"
    ELSE IF ask_volume > wall_threshold THEN "DETECTED_FAKE_WALL_ASK: DEPLOY_BAIT_BUY"
    ELSE IF Gt(spread_percent, Rat(1, 1)) THEN "MARKET_VOID: DEPLOY_PROBE"
    ELSE "NO_COMPETITOR_ANOMALY"

\* lib.rs: the facade forwards its three arguments
analyze_competitor_behavior(bid_volume, ask_volume, spread_percent) ==
    analyze(bid_volume, ask_volume, spread_percent)

\* --------------------------------------------------------------- inputs
\* the snapshot of tests::test_obi_calculation, and the snapshot the facade
\* builds (timestamp 0) from an empty order book
TestSnapshot == OrderBookSnapshot(1000, 100, 50, 99, 101)
EmptyBook == OrderBookData(0, 0, 0, 0)
SnapshotInputs == {TestSnapshot, ToSnapshot(EmptyBook)}

RECURSIVE SeqsUpTo(_, _)
SeqsUpTo(S, n) ==
    IF n = 0 THEN {<<>>}
    ELSE LET shorter == SeqsUpTo(S, n - 1)
         IN  shorter \cup {Append(q, x) : q \in {p \in shorter : Len(p) = n - 1}, x \in S}

BatchInputs == SeqsUpTo(SnapshotInputs, MaxBatch)

\* inputs of the stateless functions: values on, next to and away from
\* every threshold
ImbalanceInputs ==
    {Rat(n, 10) : n \in (0 - 10)..10}
        \cup {Rat(6, 20), Rat(0 - 6, 20), Rat(1, 3), Rat(0 - 1, 3),
              Rat(301, 1000), Rat(299, 1000), Rat(0 - 301, 1000), Rat(0 - 299, 1000)}
SingleSnapshotInputs ==
    {OrderBookSnapshot(ts, bv, av, p[1], p[2]) :
        ts \in {0, 1000}, bv \in {0, 7, 13, 50, 100}, av \in {0, 7, 13, 50, 100},
        p \in {<<99, 101>>, <<0, 0>>}}
VolumeInputs == {100, 300, 999, 1000, 1001, 1200, 1500, 2000}
SpreadInputs == {Rat(1, 10), Rat(2, 10), Rat(1, 1), Rat(11, 10), Rat(2, 1), Rat(5, 1)}

\* ---------------------------------------------------------------- state
VARIABLES
    cuda,            \* build configuration: feature "cuda" compiled in
    PHYSICS_ENGINE,  \* static PHYSICS_ENGINE: the value inside the Mutex
    lock,            \* the thread holding the MutexGuard, or NoThread
    writes,          \* number of assignments to *engine so far
    pc,              \* per thread: position in the call it is running
    probe,           \* per thread: outcome of CudaDevice::new(0) in init
    ret,             \* per thread: value init is about to return
    snapshots,       \* per thread: argument of calculate_obi_batch
    gpu,             \* per thread: outcome of calculate_obi_batch_gpu
    pending,         \* per thread: indices par_iter has not yet mapped
    buf,             \* per thread: output buffer of collect()
    results,         \* per thread: Vec the batch call is about to return
    call             \* last call of a stateless facade function

vars == <<cuda, PHYSICS_ENGINE, lock, writes, pc, probe, ret, snapshots, gpu,
          pending, buf, results, call>>

shared == <<cuda, PHYSICS_ENGINE, lock, writes>>
initLocals == <<probe, ret>>
batchLocals == <<snapshots, gpu, pending, buf, results>>

InitPcs == {"init_lock", "init_probe", "init_cpu", "init_ret"}
BatchPcs == {"batch_lock", "batch_match", "batch_gpu", "batch_cpu", "batch_ret"}
\* positions at which the thread holds the MutexGuard
GuardPcs == {"init_probe", "init_cpu", "init_ret",
             "batch_match", "batch_gpu", "batch_cpu", "batch_ret"}

NoCall == [fn |-> "none"]

Init ==
    /\ cuda \in BOOLEAN
    /\ PHYSICS_ENGINE = None
    /\ lock = NoThread
    /\ writes = 0
    /\ pc = [t \in Threads |-> "idle"]
    /\ probe = [t \in Threads |-> "none"]
    /\ ret = [t \in Threads |-> None]
    /\ snapshots = [t \in Threads |-> <<>>]
    /\ gpu = [t \in Threads |-> None]
    /\ pending = [t \in Threads |-> {}]
    /\ buf = [t \in Threads |-> <<>>]
    /\ results = [t \in Threads |-> None]
    /\ call = NoCall

\* ------------------------------------------------- PhysicsEngine::init
InitsStarted == writes + Cardinality({t \in Threads : pc[t] \in InitPcs \ {"init_ret"}})

CallInit(t) ==
    /\ pc[t] = "idle"
    /\ InitsStarted < MaxInits
    /\ pc' = [pc EXCEPT ![t] = "init_lock"]
    /\ UNCHANGED <<shared, initLocals, batchLocals, call>>

\* let mut engine = PHYSICS_ENGINE.lock().unwrap();
InitLock(t) ==
    /\ pc[t] = "init_lock"
    /\ LockFree(lock)
    /\ lock' = t
    /\ pc' = [pc EXCEPT ![t] = "init_probe"]
    /\ UNCHANGED <<cuda, PHYSICS_ENGINE, writes, initLocals, batchLocals, call>>

InitProbeClears(t) ==
    /\ pc[t] = "init_probe"
    /\ IF cuda
       THEN \E outcome \in {"Ok", "Err"} :
              /\ probe' = [probe EXCEPT ![t] = outcome]
              /\ IF outcome = "Ok"
                 THEN /\ PHYSICS_ENGINE' = Some(PhysicsEngine(CudaDev, FALSE))
                      /\ writes' = writes + 1
                      /\ ret' = [ret EXCEPT ![t] = Some(Ok(<<>>))]
                      /\ pc' = [pc EXCEPT ![t] = "init_ret"]
                 ELSE /\ PHYSICS_ENGINE' = None
                      /\ pc' = [pc EXCEPT ![t] = "init_cpu"]
                      /\ UNCHANGED <<writes, ret>>
       ELSE /\ probe' = [probe EXCEPT ![t] = "NotCompiled"]
            /\ pc' = [pc EXCEPT ![t] = "init_cpu"]
            /\ UNCHANGED <<PHYSICS_ENGINE, writes, ret>>
    /\ UNCHANGED <<cuda, lock, batchLocals, call>>

\* #[cfg(feature = "cuda")] match CudaDevice::new(0)
InitProbe(t) ==
    /\ pc[t] = "init_probe"
    /\ IF cuda
       THEN \E outcome \in {"Ok", "Err"} :
              /\ probe' = [probe EXCEPT ![t] = outcome]
              /\ IF outcome = "Ok"
                 THEN /\ PHYSICS_ENGINE' = Some(PhysicsEngine(CudaDev, FALSE))
                      /\ writes' = writes + 1
                      /\ ret' = [ret EXCEPT ![t] = Some(Ok(<<>>))]
                      /\ pc' = [pc EXCEPT ![t] = "init_ret"]
                 ELSE /\ pc' = [pc EXCEPT ![t] = "init_cpu"]
                      /\ UNCHANGED <<PHYSICS_ENGINE, writes, ret>>
       ELSE /\ probe' = [probe EXCEPT ![t] = "NotCompiled"]
            /\ pc' = [pc EXCEPT ![t] = "init_cpu"]
            /\ UNCHANGED <<PHYSICS_ENGINE, writes, ret>>
    /\ UNCHANGED <<cuda, lock, batchLocals, call>>

InitCpuFallbackPropagates(t) ==
    /\ pc[t] = "init_cpu"
    /\ IF probe[t] = "Err"
       THEN /\ ret' = [ret EXCEPT ![t] = Some(Err("CUDA Init Failed"))]
            /\ UNCHANGED <<PHYSICS_ENGINE, writes>>
       ELSE /\ PHYSICS_ENGINE' = Some(PhysicsEngine(NoDevice, TRUE))
            /\ writes' = writes + 1
            /\ ret' = [ret EXCEPT ![t] = Some(Ok(<<>>))]
    /\ pc' = [pc EXCEPT ![t] = "init_ret"]
    /\ UNCHANGED <<cuda, lock, probe, batchLocals, call>>

\* CPU Fallback: *engine = Some(PhysicsEngine { gpu_device: None, cpu_fallback: true })
InitCpuFallback(t) ==
    /\ pc[t] = "init_cpu"
    /\ PHYSICS_ENGINE' = Some(PhysicsEngine(NoDevice, TRUE))
    /\ writes' = writes + 1
    /\ ret' = [ret EXCEPT ![t] = Some(Ok(<<>>))]
    /\ pc' = [pc EXCEPT ![t] = "init_ret"]
    /\ UNCHANGED <<cuda, lock, probe, batchLocals, call>>

\* return: the guard is dropped and the caller receives the value
InitReturn(t) ==
    /\ pc[t] = "init_ret"
    /\ lock' = NoThread
    /\ probe' = [probe EXCEPT ![t] = "none"]
    /\ ret' = [ret EXCEPT ![t] = None]
    /\ pc' = [pc EXCEPT ![t] = "idle"]
    /\ UNCHANGED <<cuda, PHYSICS_ENGINE, writes, batchLocals, call>>

\* ------------------------------------------------ calculate_obi_batch
CallBatch(t) ==
    /\ pc[t] = "idle"
    /\ \E batch \in BatchInputs : snapshots' = [snapshots EXCEPT ![t] = batch]
    /\ pc' = [pc EXCEPT ![t] = "batch_lock"]
    /\ UNCHANGED <<shared, initLocals, gpu, pending, buf, results, call>>

\* let engine = PHYSICS_ENGINE.lock().unwrap();
BatchLock(t) ==
    /\ pc[t] = "batch_lock"
    /\ LockFree(lock)
    /\ lock' = t
    /\ pc' = [pc EXCEPT ![t] = "batch_match"]
    /\ UNCHANGED <<cuda, PHYSICS_ENGINE, writes, initLocals, batchLocals, call>>

BatchMatchUnchecked(t) ==
    /\ pc[t] = "batch_match"
    /\ IF cuda /\ PHYSICS_ENGINE # None /\ PHYSICS_ENGINE[1].gpu_device # NoDevice
       THEN /\ pc' = [pc EXCEPT ![t] = "batch_gpu"]
            /\ UNCHANGED <<results, pending, buf>>
       ELSE /\ pending' = [pending EXCEPT ![t] = 1..Len(snapshots[t])]
            /\ buf' = [buf EXCEPT ![t] = [i \in 1..Len(snapshots[t]) |-> None]]
            /\ pc' = [pc EXCEPT ![t] = "batch_cpu"]
            /\ UNCHANGED results
    /\ UNCHANGED <<shared, initLocals, snapshots, gpu, call>>

\* match &*engine { Some(eng) => ..., None => vec![] }
BatchMatch(t) ==
    /\ pc[t] = "batch_match"
    /\ IF PHYSICS_ENGINE = None
       THEN /\ results' = [results EXCEPT ![t] = Some(<<>>)]
            /\ pc' = [pc EXCEPT ![t] = "batch_ret"]
            /\ UNCHANGED <<pending, buf>>
       ELSE IF cuda /\ PHYSICS_ENGINE[1].gpu_device # NoDevice
       THEN /\ pc' = [pc EXCEPT ![t] = "batch_gpu"]
            /\ UNCHANGED <<results, pending, buf>>
       ELSE /\ pending' = [pending EXCEPT ![t] = 1..Len(snapshots[t])]
            /\ buf' = [buf EXCEPT ![t] = [i \in 1..Len(snapshots[t]) |-> None]]
            /\ pc' = [pc EXCEPT ![t] = "batch_cpu"]
            /\ UNCHANGED results
    /\ UNCHANGED <<shared, initLocals, snapshots, gpu, call>>

BatchGpuDemotes(t) ==
    /\ pc[t] = "batch_gpu"
    /\ \E r \in calculate_obi_batch_gpu(snapshots[t]) :
          /\ gpu' = [gpu EXCEPT ![t] = Some(r)]
          /\ IF r.ok
             THEN /\ results' = [results EXCEPT ![t] = Some(r.val)]
                  /\ pc' = [pc EXCEPT ![t] = "batch_ret"]
                  /\ UNCHANGED <<PHYSICS_ENGINE, pending, buf>>
             ELSE /\ PHYSICS_ENGINE' = Some(PhysicsEngine(NoDevice, TRUE))
                  /\ pending' = [pending EXCEPT ![t] = 1..Len(snapshots[t])]
                  /\ buf' = [buf EXCEPT ![t] = [i \in 1..Len(snapshots[t]) |-> None]]
                  /\ pc' = [pc EXCEPT ![t] = "batch_cpu"]
                  /\ UNCHANGED results
    /\ UNCHANGED <<cuda, lock, writes, initLocals, snapshots, call>>

\* match PhysicsEngine::calculate_obi_batch_gpu(device, snapshots)
BatchGpu(t) ==
    /\ pc[t] = "batch_gpu"
    /\ \E r \in calculate_obi_batch_gpu(snapshots[t]) :
          /\ gpu' = [gpu EXCEPT ![t] = Some(r)]
          /\ IF r.ok
             THEN /\ results' = [results EXCEPT ![t] = Some(r.val)]
                  /\ pc' = [pc EXCEPT ![t] = "batch_ret"]
                  /\ UNCHANGED <<pending, buf>>
             ELSE /\ pending' = [pending EXCEPT ![t] = 1..Len(snapshots[t])]
                  /\ buf' = [buf EXCEPT ![t] = [i \in 1..Len(snapshots[t]) |-> None]]
                  /\ pc' = [pc EXCEPT ![t] = "batch_cpu"]
                  /\ UNCHANGED results
    /\ UNCHANGED <<shared, initLocals, snapshots, call>>

\* calculate_obi_batch_cpu: a worker maps one element that is still pending
BatchCpuMap(t) ==
    /\ pc[t] = "batch_cpu"
    /\ \E i \in pending[t] :
          /\ buf' = [buf EXCEPT ![t] = Place(buf[t], i, calculate_single_obi(snapshots[t][i]))]
          /\ pending' = [pending EXCEPT ![t] = pending[t] \ {i}]
    /\ UNCHANGED <<shared, initLocals, snapshots, gpu, results, pc, call>>

\* calculate_obi_batch_cpu: collect() yields the Vec once every element is mapped
BatchCpuCollect(t) ==
    /\ pc[t] = "batch_cpu"
    /\ pending[t] = {}
    /\ results' = [results EXCEPT ![t] = Some([i \in 1..Len(buf[t]) |-> buf[t][i][1]])]
    /\ pc' = [pc EXCEPT ![t] = "batch_ret"]
    /\ UNCHANGED <<shared, initLocals, snapshots, gpu, pending, buf, call>>

BatchReturnKeepsGuard(t) ==
    /\ pc[t] = "batch_ret"
    /\ snapshots' = [snapshots EXCEPT ![t] = <<>>]
    /\ gpu' = [gpu EXCEPT ![t] = None]
    /\ buf' = [buf EXCEPT ![t] = <<>>]
    /\ results' = [results EXCEPT ![t] = None]
    /\ pc' = [pc EXCEPT ![t] = "idle"]
    /\ UNCHANGED <<shared, initLocals, pending, call>>

\* return: the guard is dropped and the caller receives the Vec
BatchReturn(t) ==
    /\ pc[t] = "batch_ret"
    /\ lock' = NoThread
    /\ snapshots' = [snapshots EXCEPT ![t] = <<>>]
    /\ gpu' = [gpu EXCEPT ![t] = None]
    /\ buf' = [buf EXCEPT ![t] = <<>>]
    /\ results' = [results EXCEPT ![t] = None]
    /\ pc' = [pc EXCEPT ![t] = "idle"]
    /\ UNCHANGED <<cuda, PHYSICS_ENGINE, writes, initLocals, pending, call>>

Next ==
    \E t \in Threads :
        \/ CallInit(t)
        \/ InitLock(t)
        \/ InitProbe(t)
        \/ InitCpuFallback(t)
        \/ InitReturn(t)
        \/ CallBatch(t)
        \/ BatchLock(t)
        \/ BatchMatch(t)
        \/ BatchGpu(t)
        \/ BatchCpuMap(t)
        \/ BatchCpuCollect(t)
        \/ BatchReturn(t)

Spec == Init /\ [][Next]_vars

\* ------------------------------------------------------------ scheduling
\* whether a call returns depends on the length of its batch only, so the
\* fair specification draws one batch of each length
LiveBatchInputs == {[i \in 1..n |-> TestSnapshot] : n \in 0..MaxBatch}

CallBatchLive(t) ==
    /\ pc[t] = "idle"
    /\ \E batch \in LiveBatchInputs : snapshots' = [snapshots EXCEPT ![t] = batch]
    /\ pc' = [pc EXCEPT ![t] = "batch_lock"]
    /\ UNCHANGED <<shared, initLocals, gpu, pending, buf, results, call>>

\* the steps of a call that thread t has started
Step(t) ==
    \/ InitLock(t)
    \/ InitProbe(t)
    \/ InitCpuFallback(t)
    \/ InitReturn(t)
    \/ BatchLock(t)
    \/ BatchMatch(t)
    \/ BatchGpu(t)
    \/ BatchCpuMap(t)
    \/ BatchCpuCollect(t)
    \/ BatchReturn(t)

NextLive ==
    \E t \in Threads :
        \/ CallInit(t)
        \/ CallBatchLive(t)
        \/ Step(t)

\* fair scheduling: a thread that can run does run, and a thread waiting
\* for the mutex gets it if it is released again and again
SpecLive == Init /\ [][NextLive]_vars /\ \A t \in Threads : SF_vars(Step(t))

\* -------------------------------------------- stateless facade functions
\* the stateless functions are called with the backend in any state the
\* process can have between calls
InitPure ==
    /\ cuda \in BOOLEAN
    /\ PHYSICS_ENGINE \in {e \in EngineValues : Mode(e) = "HardwareAccelerated" => cuda}
    /\ lock = NoThread
    /\ writes = IF PHYSICS_ENGINE = None THEN 0 ELSE 1
    /\ pc = [t \in Threads |-> "idle"]
    /\ probe = [t \in Threads |-> "none"]
    /\ ret = [t \in Threads |-> None]
    /\ snapshots = [t \in Threads |-> <<>>]
    /\ gpu = [t \in Threads |-> None]
    /\ pending = [t \in Threads |-> {}]
    /\ buf = [t \in Threads |-> <<>>]
    /\ results = [t \in Threads |-> None]
    /\ call = NoCall

threadVars == <<shared, pc, initLocals, batchLocals>>

EvaluateMarketEntropy ==
    /\ \E imbalance \in ImbalanceInputs :
          call' = [fn |-> "evaluate_market_entropy", args |-> <<imbalance>>,
                   ret |-> evaluate_market_entropy(imbalance)]
    /\ UNCHANGED threadVars

\* one element of a batch: what the batch path computes for one snapshot
CalculateSingleObi ==
    /\ \E snapshot \in SingleSnapshotInputs :
          call' = [fn |-> "calculate_single_obi", args |-> <<snapshot>>,
                   ret |-> calculate_single_obi(snapshot)]
    /\ UNCHANGED threadVars

AnalyzeCompetitorBehavior ==
    /\ \E bv \in VolumeInputs, av \in VolumeInputs, sp \in SpreadInputs :
          call' = [fn |-> "analyze_competitor_behavior", args |-> <<bv, av, sp>>,
                   ret |-> analyze_competitor_behavior(bv, av, sp)]
    /\ UNCHANGED threadVars

\* ---------------------------------------------------------------- tda.rs
\* f64 addition and division by a length. 0.0 / 0 is the NaN 0/0 (den = 0),
\* and every ordered comparison with a NaN is false. Sums are exact: the
\* rounding of a sum of quotients is not modelled.
IsNaN(x) == x.den = 0
RatAdd(x, y) == Rat(x.num * y.den + y.num * x.den, x.den * y.den)
FDiv(x, n) == Rat(x.num, x.den * n)
GtF(x, y) == ~IsNaN(x) /\ ~IsNaN(y) /\ Gt(x, y)

\* iter().sum::<f64>()
RECURSIVE Sum(_)
Sum(values) ==
    IF values = <<>> THEN Rat(0, 1)
    ELSE RatAdd(values[1], Sum(Tail(values)))

snapshot_curvature_unclamped(s) ==
    LET total_vol == s.bid_volume + s.ask_volume
        spread == Abs(s.ask_price - s.bid_price)
    IN  IF total_vol = 0 THEN Rat(1, 1) ELSE Rat(spread, total_vol)

\* the closure of calculate_curvature: the score of one snapshot
snapshot_curvature(s) ==
    LET total_vol == s.bid_volume + s.ask_volume
        spread == Abs(s.ask_price - s.bid_price)
        curvature == Rat(spread, total_vol)
    IN  IF total_vol = 0 THEN Rat(1, 1)
        ELSE IF Gt(curvature, Rat(1, 1)) THEN Rat(1, 1) ELSE curvature

\* TopologicalAnalyzer::calculate_curvature: par_iter().map().collect()
calculate_curvature(batch) ==
    [i \in 1..Len(batch) |-> snapshot_curvature(batch[i])]

\* TopologicalAnalyzer::detect_holes: avg_curvature, then the comparison
avg_curvature(batch) ==
    LET curvature == calculate_curvature(batch)
    IN  FDiv(Sum(curvature), Len(curvature))

HoleThreshold == Rat(5, 100)

detect_holes(batch) == GtF(avg_curvature(batch), HoleThreshold)

\* lib.rs calculate_manifold_curvature: the struct literal names the four
\* price and volume fields only, and the empty batch is answered with 0.0
calculate_manifold_curvature(market_data) ==
    LET batch == [i \in 1..Len(market_data) |->
                    [bid_price |-> market_data[i].bid_price,
                     bid_volume |-> market_data[i].bid_volume,
                     ask_price |-> market_data[i].ask_price,
                     ask_volume |-> market_data[i].ask_volume]]
        curvatures == calculate_curvature(batch)
    IN  IF Len(curvatures) = 0 THEN Rat(0, 1)
        ELSE FDiv(Sum(curvatures), Len(curvatures))

\* lib.rs check_gpu_status: takes no argument and reads no state
check_gpu_status == "Physics Engine: READY (Check logs for CUDA/CPU mode)"

\* order books on and around the clamp (spread = volume) and the hole
\* threshold (spread / volume = 0.05), with an empty book and a crossed book
TdaInputs ==
    {OrderBookData(0, 0, 0, 0), OrderBookData(99, 100, 101, 50),
     OrderBookData(90, 7, 110, 0), OrderBookData(93, 7, 100, 0),
     OrderBookData(99, 20, 101, 20), OrderBookData(101, 13, 99, 7)}
TdaBatchInputs == SeqsUpTo(TdaInputs, MaxBatch)
ToSnapshots(market_data) == [i \in 1..Len(market_data) |-> ToSnapshot(market_data[i])]

CalculateCurvature ==
    /\ \E market_data \in TdaBatchInputs :
          call' = [fn |-> "calculate_curvature", args |-> <<ToSnapshots(market_data)>>,
                   ret |-> calculate_curvature(ToSnapshots(market_data))]
    /\ UNCHANGED threadVars

DetectHoles ==
    /\ \E market_data \in TdaBatchInputs :
          call' = [fn |-> "detect_holes", args |-> <<ToSnapshots(market_data)>>,
                   avg_curvature |-> avg_curvature(ToSnapshots(market_data)),
                   ret |-> detect_holes(ToSnapshots(market_data))]
    /\ UNCHANGED threadVars

CalculateManifoldCurvature ==
    /\ \E market_data \in TdaBatchInputs :
          call' = [fn |-> "calculate_manifold_curvature", args |-> <<market_data>>,
                   ret |-> calculate_manifold_curvature(market_data)]
    /\ UNCHANGED threadVars

NextTda ==
    \/ CalculateCurvature
    \/ DetectHoles
    \/ CalculateManifoldCurvature

SpecTda == InitPure /\ [][NextTda]_vars

\* check_gpu_status is called with the backend in any state
CheckGpuStatus ==
    /\ call' = [fn |-> "check_gpu_status", args |-> <<>>, ret |-> check_gpu_status]
    /\ UNCHANGED threadVars

NextPure ==
    \/ EvaluateMarketEntropy
    \/ CalculateSingleObi
    \/ AnalyzeCompetitorBehavior
    \/ CheckGpuStatus

SpecPure == InitPure /\ [][NextPure]_vars

TypeOK ==
    /\ PHYSICS_ENGINE \in EngineValues
    /\ lock \in Threads \cup {NoThread}
    /\ writes \in 0..MaxInits

\* ================================================================ claims
Returning(t) == pc[t] = "batch_ret"
LatencySamples == {0, 1}

\* C1: once the backend holds a terminal mode, no later init() call changes
\* the stored mode, whatever its hardware probe returns.
C1_InitIdempotent ==
    [][PHYSICS_ENGINE # None => PHYSICS_ENGINE' = PHYSICS_ENGINE]_vars

\* C2: over the process lifetime the backend state is written exactly once,
\* by the one init() call that finds it Uninitialized.
C2_WrittenOnce == writes <= 1

\* C3: the stored backend is always None or a fully constructed engine
\* (accelerated with a device, or cpu fallback without one), and no thread
\* reads it while an initializer holds it between lock and write.
C3_NoPartialRead ==
    /\ PHYSICS_ENGINE # None =>
          (PHYSICS_ENGINE[1].cpu_fallback <=> PHYSICS_ENGINE[1].gpu_device = NoDevice)
    /\ \A t, u \in Threads :
          ~(pc[t] \in {"batch_match", "batch_gpu"} /\ pc[u] \in {"init_probe", "init_cpu"})

C3_Witness ==
    \E t, u \in Threads :
        /\ pc[t] = "batch_match"
        /\ PHYSICS_ENGINE # None
        /\ pc[u] = "init_lock"

\* C4: an init() call about to return returns Ok, which the facade passes on
\* as Ok, and has stored HardwareAccelerated if its probe succeeded and
\* CpuParallel if the probe failed or was not compiled in.
C4_InitAlwaysOk ==
    \A t \in Threads :
        pc[t] = "init_ret" =>
            /\ ret[t] = Some(Ok(<<>>))
            /\ init_physics_engine(ret[t][1]).ok
            /\ Mode(PHYSICS_ENGINE) =
                  IF probe[t] = "Ok" THEN "HardwareAccelerated" ELSE "CpuParallel"

C4_Witness ==
    \E t \in Threads : pc[t] = "init_ret" /\ probe[t] = "Err"

\* C5: a batch call that finds the backend Uninitialized returns the empty
\* sequence (Ok and empty through the facade) for every batch, and the
\* backend is still Uninitialized when it returns.
C5_UninitializedEmpty ==
    [][\A t \in Threads :
          (lock = t /\ pc[t] \in {"batch_match", "batch_ret"} /\ PHYSICS_ENGINE = None) =>
              /\ PHYSICS_ENGINE' = None
              /\ pc'[t] \in {"batch_match", "batch_ret", "idle"}
              /\ pc'[t] = "batch_ret" =>
                    /\ results'[t] = Some(<<>>)
                    /\ \A ms \in LatencySamples :
                          ts_results(results'[t][1], ms) = Ok(<<>>)]_vars

C5_Witness ==
    \E t \in Threads :
        /\ Returning(t)
        /\ PHYSICS_ENGINE = None
        /\ Len(snapshots[t]) > 0
        /\ results[t] = Some(<<>>)

\* C6: in HardwareAccelerated mode the accelerated path has reported failure
\* and the batch call returns what the general-purpose path computes for
\* the same batch.
C6_GpuFallsBack ==
    \A t \in Threads :
        (Returning(t) /\ Mode(PHYSICS_ENGINE) = "HardwareAccelerated") =>
            /\ gpu[t] # None
            /\ ~gpu[t][1].ok
            /\ results[t] =
                  Some([i \in 1..Len(snapshots[t]) |-> calculate_single_obi(snapshots[t][i])])

C6_Witness ==
    \E t \in Threads :
        /\ Returning(t)
        /\ Mode(PHYSICS_ENGINE) = "HardwareAccelerated"
        /\ Len(snapshots[t]) > 0
        /\ results[t][1][1].signal = "BUY_PRESSURE"

\* C7: while a batch call holds the backend, in any mode and on either
\* path, no step changes the backend state.
C7_BatchKeepsState ==
    [][(\E t \in Threads : lock = t /\ pc[t] \in BatchPcs) =>
          PHYSICS_ENGINE' = PHYSICS_ENGINE]_vars

C7_Witness ==
    \E t \in Threads :
        /\ pc[t] = "batch_cpu"
        /\ gpu[t] # None
        /\ ~gpu[t][1].ok
        /\ Mode(PHYSICS_ENGINE) = "HardwareAccelerated"

\* C8: with the backend initialized a batch of N snapshots returns N
\* results and result i is the result of snapshot i, in whatever order the
\* workers complete the elements: every element completed so far sits at
\* its own index, and the returned sequence is complete.
C8_OrderPreserved ==
    \A t \in Threads :
        /\ pc[t] = "batch_cpu" =>
              /\ Len(buf[t]) = Len(snapshots[t])
              /\ \A i \in 1..Len(snapshots[t]) :
                    /\ i \in pending[t] <=> buf[t][i] = None
                    /\ i \notin pending[t] =>
                          buf[t][i] = Some(calculate_single_obi(snapshots[t][i]))
        /\ (Returning(t) /\ PHYSICS_ENGINE # None) =>
              /\ results[t] # None
              /\ Len(results[t][1]) = Len(snapshots[t])
              /\ \A i \in 1..Len(snapshots[t]) :
                    results[t][1][i] = calculate_single_obi(snapshots[t][i])

\* the last element of a batch of different snapshots completed first
C8_Witness ==
    \E t \in Threads :
        /\ pc[t] = "batch_cpu"
        /\ Len(snapshots[t]) >= 2
        /\ snapshots[t][1] # snapshots[t][Len(snapshots[t])]
        /\ pending[t] = 1..(Len(snapshots[t]) - 1)

\* C9: the standalone classifier answers BUY_PRESSURE exactly above 0.3,
\* SELL_PRESSURE exactly below -0.3 and NEUTRAL otherwise (also at 0.3 and
\* -0.3), in every backend state, and gives for the obi of every snapshot
\* the signal the per-snapshot classifier of the batch path gives.
C9_StrictThresholds ==
    /\ call.fn = "evaluate_market_entropy" =>
          LET x == call.args[1]
          IN  /\ call.ret = "BUY_PRESSURE" <=> 10 * x.num > 3 * x.den
              /\ call.ret = "SELL_PRESSURE" <=> 10 * x.num < (0 - 3) * x.den
              /\ call.ret = "NEUTRAL" <=>
                    (10 * x.num <= 3 * x.den /\ 10 * x.num >= (0 - 3) * x.den)
    /\ call.fn = "calculate_single_obi" =>
          /\ call.ret.signal = evaluate_market_entropy(call.ret.obi)
          /\ call.ret.signal = "BUY_PRESSURE" <=> 10 * call.ret.obi.num > 3 * call.ret.obi.den
          /\ call.ret.signal = "SELL_PRESSURE" <=>
                10 * call.ret.obi.num < (0 - 3) * call.ret.obi.den

C9_Witness ==
    /\ call.fn = "calculate_single_obi"
    /\ call.args[1].bid_volume = 13
    /\ call.args[1].ask_volume = 7
    /\ call.ret.signal = "NEUTRAL"
    /\ PHYSICS_ENGINE = None

\* C10: the competitor verdict is the first matching rule of: bid_volume >
\* 1000, ask_volume > 1000, spread_percent > 1.0, else no anomaly; all three
\* comparisons strict.
C10_FirstMatchWins ==
    call.fn = "analyze_competitor_behavior" =>
        LET bv == call.args[1]
            av == call.args[2]
            sp == call.args[3]
            wide == sp.num > sp.den
        IN  /\ bv > 1000 => call.ret = "DETECTED_FAKE_WALL_BID: DEPLOY_BAIT_SELL"
            /\ (bv <= 1000 /\ av > 1000) =>
                  call.ret = "DETECTED_FAKE_WALL_ASK: DEPLOY_BAIT_BUY"
            /\ (bv <= 1000 /\ av <= 1000 /\ wide) => call.ret = "MARKET_VOID: DEPLOY_PROBE"
            /\ (bv <= 1000 /\ av <= 1000 /\ ~wide) => call.ret = "NO_COMPETITOR_ANOMALY"

C10_Witness ==
    /\ call.fn = "analyze_competitor_behavior"
    /\ call.args = <<1500, 2000, Rat(5, 1)>>
    /\ call.ret = "DETECTED_FAKE_WALL_BID: DEPLOY_BAIT_SELL"

\* C11: detect_holes never divides the curvature sum by a zero batch length
\* (its mean is never the NaN 0/0), and for a non-empty batch it answers
\* true exactly when the mean curvature is strictly above 0.05.
C11_EmptyBatchGuarded ==
    call.fn = "detect_holes" =>
        /\ ~IsNaN(call.avg_curvature)
        /\ Len(call.args[1]) > 0 =>
              (call.ret <=> 100 * call.avg_curvature.num > 5 * call.avg_curvature.den)

\* C12: the status query answers the mode the backend currently holds.
C12_StatusIsMode ==
    call.fn = "check_gpu_status" => call.ret = Mode(PHYSICS_ENGINE)

\* C14: the per-snapshot computation never divides by zero: with total
\* volume 0 the obi is 0 and the signal NEUTRAL, with average price 0 the
\* entropy is 1.0, and otherwise obi = (bid_volume - ask_volume) /
\* total_volume and entropy = |ask_price - bid_price| / avg_price.
\* Snapshots are those of the data model: prices and volumes >= 0.
C14_NoDivisionByZero ==
    call.fn = "calculate_single_obi" =>
        LET s == call.args[1]
            r == call.ret
            total == s.bid_volume + s.ask_volume
            price2 == s.bid_price + s.ask_price
            spread == IF s.ask_price >= s.bid_price THEN s.ask_price - s.bid_price
                      ELSE s.bid_price - s.ask_price
        IN  /\ r.obi.den # 0
            /\ r.entropy.den # 0
            /\ total = 0 => (r.obi.num = 0 /\ r.signal = "NEUTRAL")
            /\ total # 0 => r.obi.num * total = (s.bid_volume - s.ask_volume) * r.obi.den
            /\ price2 = 0 => r.entropy.num = r.entropy.den
            /\ price2 # 0 => r.entropy.num * price2 = 2 * spread * r.entropy.den

C14_Witness ==
    /\ call.fn = "calculate_single_obi"
    /\ call.args[1].bid_volume + call.args[1].ask_volume = 0
    /\ call.args[1].bid_price + call.args[1].ask_price = 0
    /\ call.ret.signal = "NEUTRAL"

\* C15: calculate_curvature returns one score per snapshot, in input order;
\* each score is min(|ask_price - bid_price| / total volume, 1.0), is 1.0
\* for total volume 0, and lies in [0, 1], in every backend state.
C15_CurvatureClamped ==
    call.fn = "calculate_curvature" =>
        /\ Len(call.ret) = Len(call.args[1])
        /\ \A i \in 1..Len(call.args[1]) :
              LET s == call.args[1][i]
                  c == call.ret[i]
                  total == s.bid_volume + s.ask_volume
                  spread == IF s.ask_price >= s.bid_price THEN s.ask_price - s.bid_price
                            ELSE s.bid_price - s.ask_price
              IN  /\ c.den > 0
                  /\ c.num >= 0
                  /\ c.num <= c.den
                  /\ total = 0 => c.num = c.den
                  /\ (total # 0 /\ spread <= total) => c.num * total = spread * c.den
                  /\ (total # 0 /\ spread > total) => c.num = c.den

\* a batch whose first order book is clamped and whose last one is not
C15_Witness ==
    /\ call.fn = "calculate_curvature"
    /\ Len(call.args[1]) >= 2
    /\ call.args[1][1] = ToSnapshot(OrderBookData(90, 7, 110, 0))
    /\ call.args[1][Len(call.args[1])] = ToSnapshot(OrderBookData(99, 100, 101, 50))
    /\ call.ret[1] = Rat(1, 1)
    /\ PHYSICS_ENGINE = None

\* C13: a batch call that is waiting to start is never kept out by a
\* hardware probe in progress or by another batch call's computation: the
\* lock is free at those positions.
C13_ProbeDoesNotBlock ==
    \A t, u \in Threads :
        (pc[u] = "batch_lock" /\ pc[t] \in {"init_probe", "batch_gpu", "batch_cpu"}) =>
            LockFree(lock)

C17_InitPermanent ==
    [][/\ PHYSICS_ENGINE # None => PHYSICS_ENGINE' # None
       /\ writes >= 1 => PHYSICS_ENGINE' # None
       /\ \A t \in Threads :
             (pc'[t] = "batch_ret" /\ PHYSICS_ENGINE' # None) =>
                 /\ results'[t] # None
                 /\ Len(results'[t][1]) = Len(snapshots'[t])]_vars

\* a non-empty batch returns after the backend has been initialized twice
C17_Witness ==
    \E t \in Threads :
        /\ Returning(t)
        /\ writes >= 2
        /\ Len(snapshots[t]) > 0
        /\ Len(results[t][1]) = Len(snapshots[t])

====
